---- MODULE Spec2Model ----
(***************************************************************************)
(* A model of tecli's img module (src/src/img.rs):                         *)
(*   - mod color: Color, its Display and FromStr impls and inverse();      *)
(*   - seed(): the background fill and the text colour it derives;         *)
(*   - mod text: pick_random_font, draw, text_dimensions, draw_with_font.  *)
(* Characters are one-character strings, a string is a sequence of them.   *)
(***************************************************************************)
EXTENDS Integers, Sequences, FiniteSets, TLC

VARIABLES
    ops,           \* color: the operations applied so far, oldest first
    arg,           \* color: the value the chain of operations started from
    ret,           \* color: the value the last operation returned
    image,         \* color: the image seed() generated
    fonts,         \* font selection: the host enumeration (a sequence of handles)
    index,         \* font selection: the random usize drawn
    picked,        \* font selection: what pick_random_font returned
    draw_ret,      \* font selection: what draw returned
    s,             \* text: the string being measured / drawn
    font,          \* text: the font, a function from characters to glyph data
    caller,        \* text: which function was called ("text_dimensions" / "draw_with_font")
    pc,            \* text: position in the running function
    i,             \* text: 1-based position of the loop over s.chars()
    cursor,        \* text: text_dimensions' cursor
    total_bounds,  \* text: text_dimensions' running box <<min_x, min_y, max_x, max_y>>
    dims,          \* text: what text_dimensions returned
    canvas,        \* text: the canvas draw_with_font allocated
    transform,     \* text: the (loop-invariant) transform draw_with_font passes on
    placed,        \* text: the rectangles rasterize_glyph was asked to fill, in order
    result         \* text: what draw_with_font returned

colorVars == <<ops, arg, ret, image>>
fontVars == <<fonts, index, picked, draw_ret>>
textVars == <<s, font, caller, pc, i, cursor, total_bounds, dims, canvas, transform, placed, result>>
vars == <<ops, arg, ret, image, fonts, index, picked, draw_ret,
          s, font, caller, pc, i, cursor, total_bounds, dims, canvas, transform, placed, result>>

-----------------------------------------------------------------------------
(* Bounds of the model                                                     *)

MaxBody == 7       \* longest run of digit characters in a command-line colour
MaxChain == 3      \* longest chain of colour operations
MaxFonts == 3      \* longest font enumeration
MaxIndex == 8      \* largest small random index (one large index is always included)
MaxLen == 3        \* longest string measured or drawn

-----------------------------------------------------------------------------
(* mod color                                                               *)

U8Max == 255
Overflow == -1     \* marks a u8 subtraction whose result is below zero

Min(a, b) == IF a <= b THEN a ELSE b
Max(a, b) == IF a >= b THEN a ELSE b

LowerHexChars == <<"0","1","2","3","4","5","6","7","8","9","a","b","c","d","e","f">>
UpperHexChars == <<"0","1","2","3","4","5","6","7","8","9","A","B","C","D","E","F">>

NoDigit == -1
\* char::to_digit(16): the value of a hexadecimal digit of either case.
to_digit(ch) ==
    IF \E k \in 1..16 : LowerHexChars[k] = ch
    THEN (CHOOSE k \in 1..16 : LowerHexChars[k] = ch) - 1
    ELSE IF \E k \in 1..16 : UpperHexChars[k] = ch
    THEN (CHOOSE k \in 1..16 : UpperHexChars[k] = ch) - 1
    ELSE NoDigit

\* The values a colour operation takes and returns.
NoVal == [tag |-> "none", text |-> <<>>, rgb |-> <<>>]
TextVal(t) == [tag |-> "text", text |-> t, rgb |-> <<>>]
ColorVal(c) == [tag |-> "color", text |-> <<>>, rgb |-> c]
ErrVal == [tag |-> "err", text |-> <<>>, rgb |-> <<>>]
PanicVal == [tag |-> "panic", text |-> <<>>, rgb |-> <<>>]

RECURSIVE DigitsValue(_)
DigitsValue(ds) ==
    IF ds = <<>> THEN 0
    ELSE 16 * DigitsValue(SubSeq(ds, 1, Len(ds) - 1)) + to_digit(ds[Len(ds)])

\* u8::from_str_radix(src, 16): one leading '+' is accepted, '-' is not (u8 is
\* unsigned); then every character must be a digit and the value fit in a u8.
\* Returns the value, or NoDigit for any ParseIntError.
from_str_radix(src) ==
    IF src = <<>> THEN NoDigit
    ELSE LET digits == IF src[1] = "+" THEN Tail(src) ELSE src
         IN  IF digits = <<>> THEN NoDigit
             ELSE IF \E k \in 1..Len(digits) : to_digit(digits[k]) = NoDigit THEN NoDigit
             ELSE IF DigitsValue(digits) > U8Max THEN NoDigit
             ELSE DigitsValue(digits)

RECURSIVE trim_start(_)
trim_start(t) == IF t # <<>> /\ t[1] = "#" THEN trim_start(Tail(t)) ELSE t
RECURSIVE trim_end(_)
trim_end(t) == IF t # <<>> /\ t[Len(t)] = "#" THEN trim_end(SubSeq(t, 1, Len(t) - 1)) ELSE t
\* str::trim_matches('#'): removes every leading and every trailing '#'.
trim_matches(t) == trim_end(trim_start(t))

\* impl FromStr for Color. &s[a..b] panics when b exceeds the length; the three
\* slices are taken and parsed in order, each `?` returning the first error.
from_str(text) ==
    LET t == trim_matches(text)
        r == from_str_radix(SubSeq(t, 1, 2))
        g == from_str_radix(SubSeq(t, 3, 4))
        b == from_str_radix(SubSeq(t, 5, 6))
    IN  IF Len(t) < 2 THEN PanicVal
        ELSE IF r = NoDigit THEN ErrVal
        ELSE IF Len(t) < 4 THEN PanicVal
        ELSE IF g = NoDigit THEN ErrVal
        ELSE IF Len(t) < 6 THEN PanicVal
        ELSE IF b = NoDigit THEN ErrVal
        ELSE ColorVal(<<r, g, b>>)

\* {:x} of a u8: lowercase hexadecimal without leading zeros.
LowerHex(v) ==
    IF v < 16 THEN <<LowerHexChars[v + 1]>>
    ELSE <<LowerHexChars[(v \div 16) + 1], LowerHexChars[(v % 16) + 1]>>

\* {:2x}: minimum width 2, padded on the left with the default fill, a space.
Pad2(t) == IF Len(t) < 2 THEN <<" ">> \o t ELSE t

\* impl Display for Color: write!(f, "#{:2x}{:2x}{:2x}", r, g, b).
fmt(c) == <<"#">> \o Pad2(LowerHex(c[1])) \o Pad2(LowerHex(c[2])) \o Pad2(LowerHex(c[3]))

\* u8 subtraction a - b.
u8_sub(a, b) == IF a >= b THEN a - b ELSE Overflow

\* A slip that writes the complemented channels in the wrong order.
inverse_rotated(c) == <<u8_sub(U8Max, c[2]), u8_sub(U8Max, c[3]), u8_sub(U8Max, c[1])>>
\* A slip that negates the channel (256 - v in 8 bits) instead of complementing it.
inverse_negate(c) == <<(256 - c[1]) % 256, (256 - c[2]) % 256, (256 - c[3]) % 256>>

\* Color::inverse: Color(Rgb([255 - r, 255 - g, 255 - b])).
inverse(c) == <<u8_sub(U8Max, c[1]), u8_sub(U8Max, c[2]), u8_sub(U8Max, c[3])>>

\* impl Into<Rgb<u8>> for Color and impl From<Rgb<u8>> for Color: the wrapped pixel.
into(c) == c
from(pixel) == pixel

\* Inputs of the colour operations.
BodyChars == {"0", "a", "F"}
RECURSIVE Bodies(_)
Bodies(n) ==
    IF n = 0 THEN {<<>>}
    ELSE LET shorter == Bodies(n - 1)
         IN  shorter \cup {<<ch>> \o t : ch \in BodyChars, t \in {u \in shorter : Len(u) = n - 1}}
Prefixes == {<<>>, <<"#">>, <<"#", "#">>}
Suffixes == {<<>>, <<"#">>}
\* Strings with a sign, a space, another non-digit or a '#' inside.
OtherTexts ==
    { <<"+","F","+","F","+","F">>, <<"-","5","-","5","-","5">>,
      <<" ","5"," ","5"," ","5">>, <<"#"," ","5"," ","5"," ","5">>,
      <<"F","F","F","F","F"," ">>, <<"g","g","g","g","g","g">>,
      <<"F","F","#","F","F","F","F">>, <<"+","+","0","0","0","0">>,
      <<"F","F","F","F","+">>, <<"0","x","F","F","F","F">>,
      <<"0","5","0","5","0","5">>, <<"#","0","5","0","5","0","5">> }
Texts == {p \o b \o q : p \in Prefixes, b \in Bodies(MaxBody), q \in Suffixes} \cup OtherTexts

ChannelSamples == {5, 128, U8Max}
\* Every channel value occurs in every position, next to sampled other channels.
Pixels ==
    {<<v, x, y>> : v \in 0..U8Max, x \in ChannelSamples, y \in ChannelSamples}
    \cup {<<x, v, y>> : v \in 0..U8Max, x \in ChannelSamples, y \in ChannelSamples}
    \cup {<<x, y, v>> : v \in 0..U8Max, x \in ChannelSamples, y \in ChannelSamples}

DefaultWidth == 1920
DefaultHeight == 1080
Sizes == {<<DefaultWidth, DefaultHeight>>, <<100, 50>>}
NoImage == [width |-> 0, height |-> 0, fill |-> <<>>, paint |-> <<>>, at |-> <<>>]

ColorInit ==
    /\ ops = <<>>
    /\ arg = NoVal
    /\ ret = NoVal
    /\ image = NoImage

\* Color::from(pixel): a colour made from a sampled pixel starts a chain.
From ==
    /\ ops = <<>>
    /\ \E pixel \in Pixels :
        /\ arg' = ColorVal(from(pixel))
        /\ ret' = ColorVal(from(pixel))
    /\ ops' = <<"from">>
    /\ UNCHANGED image
    /\ UNCHANGED <<fontVars, textVars>>

\* text.parse::<Color>(): either a command-line text starts a chain, or the
\* text the chain produced is parsed.
FromStr ==
    /\ Len(ops) < MaxChain
    /\ \/ /\ ops = <<>>
          /\ \E text \in Texts :
              /\ arg' = TextVal(text)
              /\ ret' = from_str(text)
       \/ /\ ret.tag = "text"
          /\ ret' = from_str(ret.text)
          /\ UNCHANGED arg
    /\ ops' = Append(ops, "from_str")
    /\ UNCHANGED image
    /\ UNCHANGED <<fontVars, textVars>>

\* color.to_string()
Fmt ==
    /\ Len(ops) < MaxChain
    /\ ret.tag = "color"
    /\ ret' = TextVal(fmt(ret.rgb))
    /\ ops' = Append(ops, "fmt")
    /\ UNCHANGED <<arg, image>>
    /\ UNCHANGED <<fontVars, textVars>>

\* color.inverse()
Inverse ==
    /\ Len(ops) < MaxChain
    /\ ret.tag = "color"
    /\ ret' = ColorVal(inverse(ret.rgb))
    /\ ops' = Append(ops, "inverse")
    /\ UNCHANGED <<arg, image>>
    /\ UNCHANGED <<fontVars, textVars>>

\* seed(args): the image is filled with args.background and the text is
\* painted with args.background.inverse() at the centre.
Seed ==
    /\ Len(ops) < MaxChain
    /\ ret.tag = "color"
    /\ \E size \in Sizes :
        image' = [width |-> size[1], height |-> size[2],
                  fill |-> into(ret.rgb), paint |-> into(inverse(ret.rgb)),
                  at |-> <<size[1] \div 2, size[2] \div 2>>]
    /\ ops' = Append(ops, "seed")
    /\ UNCHANGED <<arg, ret>>
    /\ UNCHANGED <<fontVars, textVars>>

ColorNext ==
    \/ From
    \/ FromStr
    \/ Fmt
    \/ Inverse
    \/ Seed

-----------------------------------------------------------------------------
(* mod text: font selection                                                *)

\* let index: usize = rand::random(): any usize; the small values and one
\* large value stand for them.
LargeIndex == 2147483647
RandomIndexes == (0..MaxIndex) \cup {LargeIndex}

\* A handle of the enumeration either loads or fails to load.
Handles == {"loads", "fails"}
RECURSIVE HandleSeqs(_)
HandleSeqs(n) ==
    IF n = 0 THEN {<<>>}
    ELSE LET shorter == HandleSeqs(n - 1)
         IN  shorter \cup {Append(t, h) : t \in {u \in shorter : Len(u) = n - 1}, h \in Handles}
\* all_fonts() either fails or yields a (possibly empty) list of handles.
Enumerations ==
    {[ok |-> FALSE, handles |-> <<>>]} \cup {[ok |-> TRUE, handles |-> hs] : hs \in HandleSeqs(MaxFonts)}

NoIndex == -1
NoPick == [tag |-> "none", loaded |-> NoIndex]

\* index % fonts.len(), for a non-empty list.
SelectIndex(idx, len) == idx % len

\* pick_random_font: all_fonts()? propagates the enumeration error; the
\* remainder by fonts.len() panics when the list is empty; from_handle(..)?
\* propagates the loading error of the selected handle.
pick_random_font(enumeration, idx) ==
    IF ~enumeration.ok THEN [tag |-> "selection_error", loaded |-> NoIndex]
    ELSE IF Len(enumeration.handles) = 0 THEN [tag |-> "panic", loaded |-> NoIndex]
    ELSE LET k == SelectIndex(idx, Len(enumeration.handles))
         IN  IF k >= Len(enumeration.handles) THEN [tag |-> "panic", loaded |-> k]
             ELSE IF enumeration.handles[k + 1] = "fails"
             THEN [tag |-> "loading_error", loaded |-> k]
             ELSE [tag |-> "ok", loaded |-> k]

FontInit ==
    /\ fonts = [ok |-> TRUE, handles |-> <<>>]
    /\ index = 0
    /\ picked = NoPick
    /\ draw_ret = "none"

\* A call of pick_random_font().
PickRandomFont ==
    /\ picked = NoPick
    /\ \E enumeration \in Enumerations, idx \in RandomIndexes :
        /\ fonts' = enumeration
        /\ index' = idx
        /\ picked' = pick_random_font(enumeration, idx)
    /\ UNCHANGED draw_ret
    /\ UNCHANGED <<colorVars, textVars>>

\* A call of draw(s, min_point, max_size): pick_random_font()? and, when a
\* font was picked, a font table is loaded and Ok(()) returned.
Draw ==
    /\ picked = NoPick
    /\ \E enumeration \in Enumerations, idx \in RandomIndexes :
        /\ fonts' = enumeration
        /\ index' = idx
        /\ picked' = pick_random_font(enumeration, idx)
        /\ draw_ret' = LET p == pick_random_font(enumeration, idx)
                       IN  IF p.tag = "ok" THEN "ok" ELSE p.tag
    /\ UNCHANGED <<colorVars, textVars>>

FontNext ==
    \/ PickRandomFont
    \/ Draw

-----------------------------------------------------------------------------
(* mod text: measuring and drawing                                         *)

Chars == {"a", "b", "c"}
RECURSIVE Strings(_)
Strings(n) ==
    IF n = 0 THEN {<<>>}
    ELSE LET shorter == Strings(n - 1)
         IN  shorter \cup {Append(t, ch) : t \in {u \in shorter : Len(u) = n - 1}, ch \in Chars}

\* What a font knows of a character. kind: "missing" (glyph_for_char is None),
\* "no_bounds" (typographic_bounds fails), "no_advance" (advance fails),
\* "no_raster" (rasterize_glyph fails) or "ok". rect is
\* typographic_bounds(glyph).to_i32() as <<min_x, min_y, max_x, max_y>>;
\* advance2 is the x advance, a float, in halves of a unit.
NoRect == <<0, 0, 0, 0>>
Glyphs ==
    { [kind |-> "missing",    rect |-> NoRect,            advance2 |-> 0],
      [kind |-> "no_bounds",  rect |-> NoRect,            advance2 |-> 2],
      [kind |-> "no_advance", rect |-> <<0, 0, 2, 3>>,    advance2 |-> 0],
      [kind |-> "no_raster",  rect |-> <<0, 0, 1, 1>>,    advance2 |-> 2],
      [kind |-> "ok",         rect |-> <<0, 0, 2, 3>>,    advance2 |-> 5],
      [kind |-> "ok",         rect |-> <<1, 1, 2, 2>>,    advance2 |-> 3],
      [kind |-> "ok",         rect |-> <<-1, -2, 1, -1>>, advance2 |-> 0],
      [kind |-> "ok",         rect |-> <<0, -1, 1, 1>>,   advance2 |-> -3] }
Fonts == [Chars -> Glyphs]
Transforms == {<<0, 0>>, <<1, 2>>}

\* `as i32` of a float: truncation towards zero.
as_i32(halves) == IF halves >= 0 THEN halves \div 2 ELSE -((-halves) \div 2)

\* RectI::new(origin, size), RectI::width(), RectI::height().
RectI_new(origin, size) == <<origin[1], origin[2], origin[1] + size[1], origin[2] + size[2]>>
width(r) == r[3] - r[1]
height(r) == r[4] - r[2]

\* A box that starts out empty (inverted), as a tight union would need.
EmptyBounds == <<1000, 1000, -1000, -1000>>

\* let mut total_bounds = RectI::new(vec2i(0, 0), vec2i(0, 0));
InitialBounds == RectI_new(<<0, 0>>, <<0, 0>>)

\* The four assignments of the loop body of text_dimensions.
ExpandBounds(tb, cur, b) ==
    <<Min(tb[1], cur + b[1]), Min(tb[2], b[2]), Max(tb[3], cur + b[3]), Max(tb[4], b[4])>>

NoDims == [tag |-> "none", ch |-> "", size |-> <<>>]
MissingGlyphError(ch) == [tag |-> "missing_glyph", ch |-> ch, size |-> <<>>]
GlyphLoadingError == [tag |-> "glyph_loading", ch |-> "", size |-> <<>>]
OkDims(w, h) == [tag |-> "ok", ch |-> "", size |-> <<w, h>>]
OkUnit == [tag |-> "ok", ch |-> "", size |-> <<>>]
NoCanvas == <<>>

TextInit ==
    /\ s = <<>>
    /\ font = [ch \in Chars |-> [kind |-> "missing", rect |-> NoRect, advance2 |-> 0]]
    /\ caller = "none"
    /\ pc = "idle"
    /\ i = 0
    /\ cursor = 0
    /\ total_bounds = InitialBounds
    /\ dims = NoDims
    /\ canvas = NoCanvas
    /\ transform = <<0, 0>>
    /\ placed = <<>>
    /\ result = NoDims

\* Entry of text_dimensions(s, font): the box and the cursor are initialised.
EnterTextDimensions(str, f) ==
    /\ s' = str
    /\ font' = f
    /\ total_bounds' = InitialBounds
    /\ cursor' = 0
    /\ i' = 1
    /\ pc' = "measure"

\* A call of text_dimensions(s, font).
TextDimensionsCall ==
    /\ pc = "idle"
    /\ \E str \in Strings(MaxLen), f \in Fonts : EnterTextDimensions(str, f)
    /\ caller' = "text_dimensions"
    /\ UNCHANGED <<dims, canvas, transform, placed, result>>
    /\ UNCHANGED <<colorVars, fontVars>>

\* A call of draw_with_font(s, font), which first calls text_dimensions(s, font).
\* The transform it later passes to rasterize_glyph is not computed in the loop.
DrawWithFontCall ==
    /\ pc = "idle"
    /\ \E str \in Strings(MaxLen), f \in Fonts : EnterTextDimensions(str, f)
    /\ \E t \in Transforms : transform' = t
    /\ caller' = "draw_with_font"
    /\ UNCHANGED <<dims, canvas, placed, result>>
    /\ UNCHANGED <<colorVars, fontVars>>

\* Where text_dimensions returns to.
ReturnPc == IF caller = "draw_with_font" THEN "measured" ELSE "done"

\* A slip that skips a character without a glyph instead of failing.
MeasureGlyphSkipping(ch) ==
    LET g == font[ch]
    IN  IF g.kind = "missing"
        THEN /\ i' = i + 1
             /\ UNCHANGED <<total_bounds, cursor, dims, pc>>
        ELSE IF g.kind = "no_bounds"
        THEN /\ dims' = GlyphLoadingError
             /\ pc' = ReturnPc
             /\ UNCHANGED <<total_bounds, cursor, i>>
        ELSE /\ total_bounds' = ExpandBounds(total_bounds, cursor, g.rect)
             /\ IF g.kind = "no_advance"
                THEN /\ dims' = GlyphLoadingError
                     /\ pc' = ReturnPc
                     /\ UNCHANGED <<cursor, i>>
                ELSE /\ cursor' = cursor + as_i32(g.advance2)
                     /\ i' = i + 1
                     /\ UNCHANGED <<dims, pc>>

\* The body of text_dimensions' loop for the character ch.
MeasureGlyph(ch) ==
    LET g == font[ch]
    IN  IF g.kind = "missing"
        THEN /\ dims' = MissingGlyphError(ch)
             /\ pc' = ReturnPc
             /\ UNCHANGED <<total_bounds, cursor, i>>
        ELSE IF g.kind = "no_bounds"
        THEN /\ dims' = GlyphLoadingError
             /\ pc' = ReturnPc
             /\ UNCHANGED <<total_bounds, cursor, i>>
        ELSE /\ total_bounds' = ExpandBounds(total_bounds, cursor, g.rect)
             /\ IF g.kind = "no_advance"
                THEN /\ dims' = GlyphLoadingError
                     /\ pc' = ReturnPc
                     /\ UNCHANGED <<cursor, i>>
                ELSE /\ cursor' = cursor + as_i32(g.advance2)
                     /\ i' = i + 1
                     /\ UNCHANGED <<dims, pc>>

\* One iteration of `for ch in s.chars()` in text_dimensions.
TextDimensionsStep ==
    /\ pc = "measure"
    /\ i <= Len(s)
    /\ MeasureGlyph(s[i])
    /\ UNCHANGED <<s, font, caller, canvas, transform, placed, result>>
    /\ UNCHANGED <<colorVars, fontVars>>

\* Ok((total_bounds.width(), total_bounds.height()))
TextDimensionsReturn ==
    /\ pc = "measure"
    /\ i > Len(s)
    /\ dims' = OkDims(width(total_bounds), height(total_bounds))
    /\ pc' = ReturnPc
    /\ UNCHANGED <<s, font, caller, i, cursor, total_bounds, canvas, transform, placed, result>>
    /\ UNCHANGED <<colorVars, fontVars>>

\* let (w, h) = text_dimensions(s, font)?; let mut canvas = Canvas::new(vec2i(w, h), ..);
DrawWithFontCanvas ==
    /\ pc = "measured"
    /\ IF dims.tag = "ok"
       THEN /\ canvas' = dims.size
            /\ i' = 1
            /\ pc' = "raster"
            /\ UNCHANGED result
       ELSE /\ result' = dims
            /\ pc' = "done"
            /\ UNCHANGED <<canvas, i>>
    /\ UNCHANGED <<s, font, caller, cursor, total_bounds, dims, transform, placed>>
    /\ UNCHANGED <<colorVars, fontVars>>

\* The translation rasterize_glyph is given for the k-th glyph: `transform`,
\* a value the loop never changes.
GlyphOrigin(k) == transform

\* One iteration of `for ch in s.chars()` in draw_with_font.
DrawWithFontStep ==
    /\ pc = "raster"
    /\ i <= Len(s)
    /\ LET g == font[s[i]]
       IN  IF g.kind = "missing"
           THEN /\ result' = MissingGlyphError(s[i])
                /\ pc' = "done"
                /\ UNCHANGED <<placed, i>>
           ELSE IF g.kind = "no_raster"
           THEN /\ result' = GlyphLoadingError
                /\ pc' = "done"
                /\ UNCHANGED <<placed, i>>
           ELSE /\ placed' = Append(placed, [ch |-> s[i], at |-> GlyphOrigin(i)])
                /\ i' = i + 1
                /\ UNCHANGED <<result, pc>>
    /\ UNCHANGED <<s, font, caller, cursor, total_bounds, dims, canvas, transform>>
    /\ UNCHANGED <<colorVars, fontVars>>

\* Ok(())
DrawWithFontReturn ==
    /\ pc = "raster"
    /\ i > Len(s)
    /\ result' = OkUnit
    /\ pc' = "done"
    /\ UNCHANGED <<s, font, caller, i, cursor, total_bounds, dims, canvas, transform, placed>>
    /\ UNCHANGED <<colorVars, fontVars>>

TextNext ==
    \/ TextDimensionsCall
    \/ DrawWithFontCall
    \/ TextDimensionsStep
    \/ TextDimensionsReturn
    \/ DrawWithFontCanvas
    \/ DrawWithFontStep
    \/ DrawWithFontReturn

-----------------------------------------------------------------------------
(* Specifications                                                          *)

Init == ColorInit /\ FontInit /\ TextInit

\* The colour operations.
SpecColor == Init /\ [][ColorNext]_vars
\* Font selection.
SpecFont == Init /\ [][FontNext]_vars
\* Measuring and drawing a text.
SpecText == Init /\ [][TextNext]_vars

-----------------------------------------------------------------------------
(* Properties of mod color                                                 *)

IsHexDigit(ch) == to_digit(ch) # NoDigit
\* The text without one leading '#', if it has one.
StripOneHash(text) == IF text # <<>> /\ text[1] = "#" THEN Tail(text) ELSE text
\* Exactly 6 hexadecimal digits after removing at most one leading '#'.
IsValidHex(text) ==
    LET t == StripOneHash(text)
    IN  Len(t) = 6 /\ \A k \in 1..6 : IsHexDigit(t[k])
\* '#' followed by the same digits in lowercase.
Normalize(text) ==
    LET t == StripOneHash(text)
    IN  <<"#">> \o [k \in 1..Len(t) |-> LowerHexChars[to_digit(t[k]) + 1]]

LastOp == IF ops = <<>> THEN "none" ELSE ops[Len(ops)]

\* C1: for every colour c, parsing the text format(c) produces succeeds and
\* returns a colour equal to c.
C1_RoundTrip == (ops = <<"from", "fmt", "from_str">>) => (ret = arg)

\* C2: for every text of exactly 6 hexadecimal digits, with or without one
\* leading '#', parsing succeeds and formatting the parsed colour gives '#'
\* followed by the same 6 digits in lowercase (7 characters, zero-padded).
C2_FormatNormalizes ==
    (ops # <<>> /\ ops[1] = "from_str" /\ IsValidHex(arg.text)) =>
        /\ (ops = <<"from_str">>) => (ret.tag = "color")
        /\ (ops = <<"from_str", "fmt">>) => (Len(ret.text) = 7 /\ ret.text = Normalize(arg.text))

\* C3: for every text that is not exactly 6 hexadecimal digits after removing
\* at most one leading '#', parse returns an error value: neither a colour nor
\* an abort.
C3_InvalidRejected ==
    (ops = <<"from_str">> /\ ~IsValidHex(arg.text)) => (ret.tag = "err")

\* C6: inverse(c) differs from c in every channel, so the text colour seed
\* derives is never equal to the background in any channel.
C6_InverseDiffers ==
    /\ (ops = <<"from", "inverse">>) => (\A k \in 1..3 : ret.rgb[k] # arg.rgb[k])
    /\ (image # NoImage) => (\A k \in 1..3 : image.paint[k] # image.fill[k])
    /\ (LastOp = "seed") => (image.fill = ret.rgb)

\* C6 witness: seed ran on a background whose channels are 128.
C6_Witness ==
    /\ LastOp = "seed"
    /\ image.fill = <<128, 128, 128>>
    /\ image.paint = <<127, 127, 127>>

\* C7: inverse(inverse(c)) = c, and every channel of inverse(c) is in 0..255
\* (255 - channel never underflows).
C7_InverseInvolution ==
    /\ (ops = <<"from", "inverse", "inverse">>) => (ret = arg)
    /\ (LastOp = "inverse") => (\A k \in 1..3 : ret.rgb[k] \in 0..U8Max)

\* C7 witness: a colour with a 0, a 255 and a 128 channel was inverted twice.
C7_Witness ==
    /\ ops = <<"from", "inverse", "inverse">>
    /\ arg.rgb = <<0, U8Max, 128>>
    /\ ret.rgb = <<0, U8Max, 128>>

-----------------------------------------------------------------------------
(* Properties of font selection                                            *)

\* C4: pick_random_font returns an error value when the enumeration is empty
\* (it does not abort), and with n >= 1 entries the index it loads is within
\* 0..n-1 whatever number was drawn.
C4_PickInRangeOrError ==
    (picked.tag # "none" /\ fonts.ok) =>
        /\ (Len(fonts.handles) = 0) => (picked.tag = "no_fonts_available")
        /\ (Len(fonts.handles) >= 1) => (picked.loaded \in 0..(Len(fonts.handles) - 1))

-----------------------------------------------------------------------------
(* Properties of measuring and drawing                                     *)

IsMissing(str, f, k) == f[str[k]].kind = "missing"
HasMissing(str, f) == \E k \in 1..Len(str) : IsMissing(str, f, k)
\* Position of the first character, left to right, the font has no glyph for.
FirstMissing(str, f) ==
    CHOOSE k \in 1..Len(str) : IsMissing(str, f, k) /\ \A j \in 1..(k - 1) : ~IsMissing(str, f, j)
\* The metrics of every character before position k can be retrieved.
MetricsBefore(str, f, k) ==
    \A j \in 1..(k - 1) : f[str[j]].kind \notin {"no_bounds", "no_advance"}

Measured == dims.tag # "none"
Drawn == caller = "draw_with_font" /\ pc = "done"

\* C5 as stated: whenever the string has a character without a glyph, measure
\* fails with MissingGlyph of the first such character, and rasterize fails
\* with the same character and no canvas.
C5_FirstMissingGlyphReported ==
    HasMissing(s, font) =>
        /\ Measured => (dims = MissingGlyphError(s[FirstMissing(s, font)]))
        /\ Drawn => (result = MissingGlyphError(s[FirstMissing(s, font)]) /\ canvas = NoCanvas)

\* C5 amended: the same, for strings in which the bounds and the advance of
\* every character before the first one without a glyph can be retrieved.
C5_FirstMissingGlyphReportedWhenMetricsLoad ==
    (HasMissing(s, font) /\ MetricsBefore(s, font, FirstMissing(s, font))) =>
        /\ Measured => (dims = MissingGlyphError(s[FirstMissing(s, font)]))
        /\ Drawn => (result = MissingGlyphError(s[FirstMissing(s, font)]) /\ canvas = NoCanvas)

\* C5 witness: draw_with_font failed on the second character although a later,
\* different character has no glyph either.
C5_Witness ==
    /\ Drawn
    /\ Len(s) >= 3
    /\ ~IsMissing(s, font, 1) /\ IsMissing(s, font, 2) /\ IsMissing(s, font, 3)
    /\ s[2] # s[3]
    /\ result = MissingGlyphError(s[2])
    /\ dims = result

\* C8: after each processed glyph the running box has min_x <= max_x and
\* min_y <= max_y, the returned width and height are never negative, and the
\* empty string yields width 0 and height 0.
C8_BoxOrdered ==
    /\ (pc # "idle" /\ i > 1) =>
          (total_bounds[1] <= total_bounds[3] /\ total_bounds[2] <= total_bounds[4])
    /\ (dims.tag = "ok") => (dims.size[1] >= 0 /\ dims.size[2] >= 0)
    /\ (dims.tag = "ok" /\ s = <<>>) => (dims.size = <<0, 0>>)

\* C8 witness: two glyphs were processed and the box grew on both sides of
\* the origin on both axes.
C8_Witness ==
    /\ dims.tag = "ok"
    /\ Len(s) >= 2
    /\ total_bounds[1] < 0 /\ total_bounds[3] > 0
    /\ total_bounds[2] < 0 /\ total_bounds[4] > 0

\* Sum of the integer-truncated advances of the glyphs before position k.
RECURSIVE CursorBefore(_, _, _)
CursorBefore(str, f, k) ==
    IF k <= 1 THEN 0
    ELSE CursorBefore(str, f, k - 1) + as_i32(f[str[k - 1]].advance2)

SetMin(S) == CHOOSE m \in S : \A x \in S : m <= x
SetMax(S) == CHOOSE m \in S : \A x \in S : m >= x

\* The tight union of the glyph rectangles placed at their cursor offsets.
TightBox(str, f) ==
    LET ks == 1..Len(str)
    IN  <<SetMin({CursorBefore(str, f, k) + f[str[k]].rect[1] : k \in ks}),
          SetMin({f[str[k]].rect[2] : k \in ks}),
          SetMax({CursorBefore(str, f, k) + f[str[k]].rect[3] : k \in ks}),
          SetMax({f[str[k]].rect[4] : k \in ks})>>

\* C9: for a non-empty string whose characters all have glyphs, the measured
\* box is the tight union of the glyph rectangles at their cursor offsets, and
\* the returned width and height are those of that union.
C9_TightUnion ==
    (dims.tag = "ok" /\ s # <<>>) =>
        /\ total_bounds = TightBox(s, font)
        /\ dims.size = <<width(TightBox(s, font)), height(TightBox(s, font))>>

\* C10: the k-th glyph is drawn at (cursor_k - bounds.min_x, -bounds.min_y), so
\* consecutive glyphs with a non-zero advance between them are drawn at
\* different horizontal positions and every glyph rectangle lies inside the
\* canvas.
C10_GlyphPositions ==
    (caller = "draw_with_font") =>
        \A k \in 1..Len(placed) :
            /\ placed[k].at = <<CursorBefore(s, font, k) - total_bounds[1], -total_bounds[2]>>
            /\ (k > 1 /\ as_i32(font[s[k - 1]].advance2) # 0) =>
                  (placed[k].at[1] # placed[k - 1].at[1])
            /\ LET r == font[s[k]].rect
               IN  /\ 0 <= placed[k].at[1] + r[1] /\ placed[k].at[1] + r[3] <= canvas[1]
                   /\ 0 <= placed[k].at[2] + r[2] /\ placed[k].at[2] + r[4] <= canvas[2]

====
